---- MODULE Spec2Model ----
(***************************************************************************)
(* Model of the support bot's ask-bot edge function (the hybrid            *)
(* retrieval-and-answer pipeline) and of the search_kb_hybrid SQL function *)
(* it calls.  Two versions of the handler are in the repository: the one   *)
(* in supabase/functions/ask-bot/index.ts ("index") and the conversational *)
(* one, with session history and the social-question test                  *)
(* ("conversational").  A deployment runs one of them.  For the search,    *)
(* the embedding, the generation and the table of chat messages, the model *)
(* keeps what the handler does with their answers: each answer is one of   *)
(* the outcomes the service can give.                                      *)
(*                                                                         *)
(* Text is a sequence of one-character strings.  A JavaScript number is a  *)
(* record [nan, h]: NaN, or the value h/2 (halves, so that 2.5 and 0.5     *)
(* exist).  Signal scores are in tenths, weights in thousandths, fused     *)
(* scores in ten-thousandths.                                              *)
(***************************************************************************)
EXTENDS Integers, Sequences, FiniteSets, TLC

VARIABLES
  handler,   \* which version of the ask-bot handler is deployed
  kb,        \* kb_chunks: the passages, with the signal scores of the query
  store,     \* chat_messages: the rows inserted so far, in insertion order
  pc,        \* where the handler is: idle, an await it is suspended at, done
  req,       \* the request being served
  loc,       \* the handler's local constants and variables
  calls,     \* the external calls the current request has issued, in order
  resp,      \* the response of the current request (NoResponse until sent)
  served,    \* number of requests received so far
  store0,    \* chat_messages as it was when the current request arrived
  params,    \* weights and k of a direct call of search_kb_hybrid
  rows,      \* the result of that call
  rows0,     \* the result of the call before it, with the former weights
  input,     \* the input of a direct call of a normalizer
  output,    \* the result of that call
  procs,     \* concurrent requests: the state of each handler invocation
  clock,     \* concurrent requests: the time, in milliseconds
  sync,      \* kb-sync: Freshdesk, kb_chunks, kb_sync_state and the current run
  widget     \* SupportBotWidget: its React state and its requests in flight

\* what the edge function serving one request at a time leaves alone
aside == <<rows0, input, output, procs, clock, sync, widget>>

\* what kb-sync and the widget leave alone: the state of ask-bot
askBot ==
  <<handler, kb, store, pc, req, loc, calls, resp, served, store0, params, rows, rows0,
    input, output, procs, clock>>

vars ==
  <<handler, kb, store, pc, req, loc, calls, resp, served, store0, params, rows, aside>>

----------------------------------------------------------------------------
(* Bounds *)

MaxRequests == 1

----------------------------------------------------------------------------
(* Text *)

FallbackDontKnow ==
  <<"I"," ","d","o","n","'","t"," ","k","n","o","w",".">>

FallbackNotFound ==
  <<"I"," ","c","o","u","l","d","n","'","t"," ","f","i","n","d"," ","t","h","a","t"," ","i","n",
    " ","o","u","r"," ","k","n","o","w","l","e","d","g","e"," ","b","a","s","e",".">>

FallbackNotSure ==
  <<"I","'","m"," ","n","o","t"," ","s","u","r","e"," ","a","b","o","u","t"," ","t","h","a","t",
    ","," ","b","u","t"," ","I","'","d"," ","b","e"," ","h","a","p","p","y"," ","t","o"," ","h",
    "e","l","p"," ","w","i","t","h"," ","a","n","y"," ","C","o","n","t","r","o","l","4"," ","o",
    "r"," ","h","o","m","e"," ","a","u","t","o","m","a","t","i","o","n"," ","q","u","e","s","t",
    "i","o","n","s"," ","y","o","u"," ","m","i","g","h","t"," ","h","a","v","e","!">>

FallbackNoInfo ==
  <<"I"," ","c","o","u","l","d","n","'","t"," ","f","i","n","d"," ","s","p","e","c","i","f","i",
    "c"," ","i","n","f","o","r","m","a","t","i","o","n"," ","a","b","o","u","t"," ","t","h","a",
    "t"," ","i","n"," ","o","u","r"," ","k","n","o","w","l","e","d","g","e"," ","b","a","s","e",
    "."," ","I","s"," ","t","h","e","r","e"," ","s","o","m","e","t","h","i","n","g"," ","e","l",
    "s","e"," ","a","b","o","u","t"," ","y","o","u","r"," ","C","o","n","t","r","o","l","4"," ",
    "s","y","s","t","e","m"," ","I"," ","c","a","n"," ","h","e","l","p"," ","w","i","t","h","?">>

QHiThere ==
  <<"H","i"," ","t","h","e","r","e">>

QThanks ==
  <<"t","h","a","n","k","s","!">>

QRemote ==
  <<"m","y"," ","r","e","m","o","t","e"," ","w","o","n","'","t"," ","p","a","i","r">>

AnsCited ==
  <<"H","o","l","d"," ","O","K"," ","[","#","2","]">>

AnsUnsure ==
  <<"I","'","M"," ","N","O","T"," ","S","U","R","E",".">>

AnsWelcome ==
  <<"H","e","l","l","o","!">>

ContentA ==
  <<"p","a","i","r"," ","i","t">>

ContentB ==
  <<"r","e","s","e","t">>

ContentC ==
  <<"w","i","f","i">>

SystemConcise ==
  <<"Y","o","u"," ","a","r","e"," ","a"," ","c","o","n","c","i","s","e"," ","s","u","p","p","o",
    "r","t"," ","a","s","s","i","s","t","a","n","t",".">>

SystemConversational ==
  <<"Y","o","u"," ","a","r","e"," ","T","y","l","e","r","B","o","t"," ","5","0","0","0">>

UserQuestion ==
  <<"U","S","E","R"," ","Q","U","E","S","T","I","O","N",":"," ">>

noAnswerPatterns ==
  { <<"I"," ","d","o","n","'","t"," ","k","n","o","w">>,
    <<"I"," ","c","o","u","l","d","n","'","t"," ","f","i","n","d"," ","t","h","a","t">>,
    <<"I","'","m"," ","n","o","t"," ","s","u","r","e">>,
    <<"I"," ","d","o","n","'","t"," ","h","a","v","e"," ","i","n","f","o","r","m","a","t","i","o","n">>,
    <<"n","o","t"," ","i","n"," ","o","u","r"," ","k","n","o","w","l","e","d","g","e"," ","b","a","s","e">>,
    <<"I"," ","d","o","n","'","t"," ","h","a","v","e"," ","e","n","o","u","g","h"," ","i","n","f","o","r","m","a","t","i","o","n">>,
    <<"I"," ","c","a","n","'","t"," ","a","n","s","w","e","r">>,
    <<"I"," ","c","a","n","'","t"," ","p","r","o","v","i","d","e">>,
    <<"I","'","m"," ","u","n","a","b","l","e"," ","t","o">> }

socialPatterns ==
  { <<"h","o","w"," ","a","r","e"," ","y","o","u">>,
    <<"h","e","l","l","o">>,
    <<"h","i"," ","t","h","e","r","e">>,
    <<"g","o","o","d"," ","m","o","r","n","i","n","g">>,
    <<"g","o","o","d"," ","a","f","t","e","r","n","o","o","n">>,
    <<"g","o","o","d"," ","e","v","e","n","i","n","g">>,
    <<"h","e","y">>,
    <<"t","h","a","n","k","s">>,
    <<"t","h","a","n","k"," ","y","o","u">>,
    <<"y","o","u","r"," ","n","a","m","e">>,
    <<"w","h","o"," ","a","r","e"," ","y","o","u">>,
    <<"w","h","a","t"," ","a","r","e"," ","y","o","u">>,
    <<"h","o","w"," ","i","s"," ","y","o","u","r"," ","d","a","y">> }


UpperCase ==
  <<"A","B","C","D","E","F","G","H","I","J","K","L","M","N","O","P","Q","R","S","T","U","V","W",
    "X","Y","Z">>

LowerCase ==
  <<"a","b","c","d","e","f","g","h","i","j","k","l","m","n","o","p","q","r","s","t","u","v","w",
    "x","y","z">>

\* the lower-case letter of each upper-case letter
LowerOf ==
  [c \in {UpperCase[i] : i \in 1..Len(UpperCase)} |->
     LowerCase[CHOOSE i \in 1..Len(UpperCase) : UpperCase[i] = c]]

ToLowerChar(c) ==
  IF c \in DOMAIN LowerOf THEN LowerOf[c] ELSE c

toLowerCase(s) ==
  [i \in 1..Len(s) |-> ToLowerChar(s[i])]

\* text contains pat as a substring
Includes(text, pat) ==
  \/ pat = <<>>
  \/ \E i \in 1..(Len(text) - Len(pat) + 1) :
       text[i] = pat[1] /\ SubSeq(text, i, i + Len(pat) - 1) = pat

\* /pat/i.test(text): a literal pattern, case-insensitive, anywhere in text
RegexTestI(pat, text) ==
  Includes(toLowerCase(text), toLowerCase(pat))

----------------------------------------------------------------------------
(* JavaScript numbers and JSON values *)

NaN == [nan |-> TRUE, h |-> 0]

Num(halves) == [nan |-> FALSE, h |-> halves]

Int2Num(n) == Num(2 * n)

MathMin(a, b) ==
  IF a.nan \/ b.nan THEN NaN ELSE IF a.h <= b.h THEN a ELSE b

MathMax(a, b) ==
  IF a.nan \/ b.nan THEN NaN ELSE IF a.h >= b.h THEN a ELSE b

IsInteger(a) == ~a.nan /\ a.h % 2 = 0

\* a > 0 (false for NaN)
Positive(a) == ~a.nan /\ a.h > 0

\* ToIntegerOrInfinity, as Array.prototype.slice applies it to its arguments
ToInteger(a) ==
  IF a.nan THEN 0 ELSE IF a.h >= 0 THEN a.h \div 2 ELSE -((-a.h) \div 2)

\* A JSON value of the request body, as far as Number() and ?? tell them
\* apart: absent (undefined), a number, or a string that is not a number.
Absent == [t |-> "absent", h |-> 0]

JNum(halves) == [t |-> "num", h |-> halves]

JText == [t |-> "str", h |-> 0]

\* Number(v ?? dflt)
NumberOr(v, dflt) ==
  CASE v.t = "absent" -> Int2Num(dflt)
    [] v.t = "num" -> Num(v.h)
    [] OTHER -> NaN

\* Number.isFinite(v) ? v : dflt, the weights being in thousandths
FiniteOr(v, dflt) ==
  IF v.t = "num" THEN v.h ELSE dflt

\* arr.slice(0, end)
SliceTo(arr, end) ==
  LET e == IF end < 0 THEN 0 ELSE IF end > Len(arr) THEN Len(arr) ELSE end
  IN SubSeq(arr, 1, e)

\* arr.slice(start) with start <= 0 (start counts from the end)
SliceLast(arr, start) ==
  LET from == IF Len(arr) + start < 0 THEN 0 ELSE Len(arr) + start
  IN SubSeq(arr, from + 1, Len(arr))

\* Number(x).toFixed(3) of a score in ten-thousandths: thousandths, rounded
\* half away from zero
toFixed3(x) ==
  IF x >= 0 THEN (x + 5) \div 10 ELSE -((-x + 5) \div 10)

----------------------------------------------------------------------------
(* ask-bot: normalizeLocal *)

\* characters outside ASCII, by code point: the combining acute accent, the
\* trade mark sign, e with acute
CombiningAcute == "U+0301"

TradeMark == "U+2122"

EAcute == "U+00E9"

Digits == <<"0","1","2","3","4","5","6","7","8","9">>

InSeq(c, s) == \E i \in 1..Len(s) : s[i] = c

\* \w of a JavaScript regular expression without the u flag
IsWordChar(c) ==
  InSeq(c, LowerCase) \/ InSeq(c, UpperCase) \/ InSeq(c, Digits) \/ c = "_"

\* \s
IsSpaceChar(c) == c \in {" ", "\t", "\n"}

\* \b at the position before s[i] (i = Len(s) + 1: at the end)
WordBoundary(s, i) ==
  LET before == i > 1 /\ i - 1 <= Len(s) /\ IsWordChar(s[i - 1])
      after == i >= 1 /\ i <= Len(s) /\ IsWordChar(s[i])
  IN before # after

\* \s* from position i: the position after the spaces
RECURSIVE SkipSpaces(_, _)
SkipSpaces(s, i) ==
  IF i <= Len(s) /\ IsSpaceChar(s[i]) THEN SkipSpaces(s, i + 1) ELSE i

\* a literal at position i: the position after it, or 0
Literal(s, i, lit) ==
  IF i >= 1 /\ i + Len(lit) - 1 <= Len(s) /\ SubSeq(s, i, i + Len(lit) - 1) = lit
    THEN i + Len(lit) ELSE 0

\* the match of a pattern of normalizeLocal at position i: the position
\* after the match, or 0
MatchAt(pattern, s, i) ==
  CASE pattern = "control\\s*4\\b" ->
         LET a == Literal(s, i, <<"c","o","n","t","r","o","l">>)
             b == IF a = 0 THEN 0 ELSE Literal(s, SkipSpaces(s, a), <<"4">>)
         IN IF b # 0 /\ WordBoundary(s, b) THEN b ELSE 0
    [] pattern = "\\b4\\s*sight\\b" ->
         LET a == IF WordBoundary(s, i) THEN Literal(s, i, <<"4">>) ELSE 0
             b == IF a = 0 THEN 0
                  ELSE Literal(s, SkipSpaces(s, a), <<"s","i","g","h","t">>)
         IN IF b # 0 /\ WordBoundary(s, b) THEN b ELSE 0
    [] pattern = "\\bos\\s*v?3\\b" ->
         LET a == IF WordBoundary(s, i) THEN Literal(s, i, <<"o","s">>) ELSE 0
             sp == IF a = 0 THEN 0 ELSE SkipSpaces(s, a)
             v == IF a = 0 THEN 0 ELSE Literal(s, sp, <<"v">>)
             withV == IF v = 0 THEN 0 ELSE Literal(s, v, <<"3">>)
             withoutV == IF a = 0 THEN 0 ELSE Literal(s, sp, <<"3">>)
         IN IF withV # 0 /\ WordBoundary(s, withV) THEN withV
            ELSE IF withoutV # 0 /\ WordBoundary(s, withoutV) THEN withoutV
            ELSE 0
    [] pattern = "\\s+" ->
         IF i <= Len(s) /\ IsSpaceChar(s[i]) THEN SkipSpaces(s, i) ELSE 0
    [] pattern = "[\\u0300-\\u036f]" ->
         IF i <= Len(s) /\ s[i] = CombiningAcute THEN i + 1 ELSE 0

\* s.replace(/pattern/g, replacement) from position i on: the matches are
\* found left to right in s and do not overlap
RECURSIVE ReplaceFrom(_, _, _, _)
ReplaceFrom(s, pattern, replacement, i) ==
  IF i > Len(s) THEN <<>>
  ELSE LET e == MatchAt(pattern, s, i)
       IN IF e # 0
            THEN replacement \o ReplaceFrom(s, pattern, replacement, e)
            ELSE <<s[i]>> \o ReplaceFrom(s, pattern, replacement, i + 1)

Replace(s, pattern, replacement) == ReplaceFrom(s, pattern, replacement, 1)

\* the compatibility decomposition of a character: the trade mark sign
\* U+2122 is <super> T M, e with acute is e and the combining accent
DecomposeChar(c) ==
  CASE c = TradeMark -> <<"T", "M">>
    [] c = EAcute -> <<"e", CombiningAcute>>
    [] OTHER -> <<c>>

\* s.normalize("NFKD")
RECURSIVE NFKD(_)
NFKD(s) ==
  IF s = <<>> THEN <<>> ELSE DecomposeChar(Head(s)) \o NFKD(Tail(s))

RECURSIVE TrimStart(_)
TrimStart(s) ==
  IF s # <<>> /\ IsSpaceChar(Head(s)) THEN TrimStart(Tail(s)) ELSE s

RECURSIVE TrimEnd(_)
TrimEnd(s) ==
  IF s # <<>> /\ IsSpaceChar(s[Len(s)]) THEN TrimEnd(SubSeq(s, 1, Len(s) - 1)) ELSE s

\* s.trim()
Trim(s) == TrimEnd(TrimStart(s))

\* toLowerCase leaves U+2122 and U+00E9 as they are
normalizeLocal(s) ==
  LET a == toLowerCase(s)
      b == NFKD(a)
      c == Replace(b, "[\\u0300-\\u036f]", <<>>)
      d == Replace(c, "control\\s*4\\b", <<"c","o","n","t","r","o","l","4">>)
      e == Replace(d, "\\b4\\s*sight\\b", <<"4","s","i","g","h","t">>)
      f == Replace(e, "\\bos\\s*v?3\\b", <<"o","s","3">>)
      g == Replace(f, "\\s+", <<" ">>)
  IN Trim(g)

----------------------------------------------------------------------------
(* supabase/sql/001_hybrid_search.sql: normalize_text *)

Backspace == "U+0008"

\* the setting standard_conforming_strings the body is read under: "on"
\* leaves a backslash in a '...' literal as it is, "off" reads it as an escape
StringSettings == {"on", "off"}

SqlError == <<"ERROR">>

\* a '...' literal read with backslash escapes: \b is the backspace
\* character, a backslash before any other character here gives that character
RECURSIVE Unescape(_)
Unescape(literal) ==
  IF literal = <<>> THEN <<>>
  ELSE IF Head(literal) = "\\" /\ Len(literal) >= 2
    THEN <<IF literal[2] = "b" THEN Backspace ELSE literal[2]>>
         \o Unescape(SubSeq(literal, 3, Len(literal)))
    ELSE <<Head(literal)>> \o Unescape(Tail(literal))

\* the regular expression a text without a backslash denotes: characters,
\* each with the quantifier *, + or ? that follows it
RECURSIVE Atoms(_)
Atoms(re) ==
  IF re = <<>> THEN <<>>
  ELSE IF Len(re) >= 2 /\ re[2] \in {"*", "+", "?"}
    THEN <<[char |-> re[1], quantifier |-> re[2]]>> \o Atoms(SubSeq(re, 3, Len(re)))
    ELSE <<[char |-> re[1], quantifier |-> "1"]>> \o Atoms(Tail(re))

\* the positions after the matches of the atoms that start at position i
RECURSIVE MatchEnds(_, _, _)
MatchEnds(atoms, s, i) ==
  IF atoms = <<>> THEN {i}
  ELSE LET a == Head(atoms)
           here == i <= Len(s) /\ s[i] = a.char
           star == <<[char |-> a.char, quantifier |-> "*"]>> \o Tail(atoms)
       IN CASE a.quantifier = "1" ->
                 IF here THEN MatchEnds(Tail(atoms), s, i + 1) ELSE {}
            [] a.quantifier = "?" ->
                 MatchEnds(Tail(atoms), s, i)
                 \cup (IF here THEN MatchEnds(Tail(atoms), s, i + 1) ELSE {})
            [] a.quantifier = "*" ->
                 MatchEnds(Tail(atoms), s, i)
                 \cup (IF here THEN MatchEnds(atoms, s, i + 1) ELSE {})
            [] a.quantifier = "+" ->
                 IF here THEN MatchEnds(star, s, i + 1) ELSE {}

\* regexp_replace(s, re, replacement, 'g') from position i on: the longest
\* match at the leftmost position, then on from its end
RECURSIVE RegexpReplaceFrom(_, _, _, _)
RegexpReplaceFrom(s, atoms, replacement, i) ==
  IF i > Len(s) THEN <<>>
  ELSE LET ends == {e \in MatchEnds(atoms, s, i) : e > i}
       IN IF ends # {}
            THEN replacement
                 \o RegexpReplaceFrom(s, atoms, replacement,
                                      CHOOSE e \in ends : \A x \in ends : x <= e)
            ELSE <<s[i]>> \o RegexpReplaceFrom(s, atoms, replacement, i + 1)

regexp_replace(s, literal, replacement) ==
  RegexpReplaceFrom(s, Atoms(Unescape(literal)), replacement, 1)

\* trim(input): the spaces at both ends
RECURSIVE SqlTrim(_)
SqlTrim(s) ==
  IF s # <<>> /\ Head(s) = " " THEN SqlTrim(Tail(s))
  ELSE IF s # <<>> /\ s[Len(s)] = " " THEN SqlTrim(SubSeq(s, 1, Len(s) - 1))
  ELSE s

\* unaccent(input) on the letters of the model: e with acute becomes e (the
\* rule for U+2122 depends on the installed rules file; no comparison is
\* made on a text holding it)
unaccent(s) == [i \in 1..Len(s) |-> IF s[i] = EAcute THEN "e" ELSE s[i]]

\* the body of normalize_text.  The literal '\bcan\'t\b' ends at \' when
\* standard_conforming_strings is on, the rest of the body is no statement
\* and the function raises a syntax error; when it is off every backslash
\* is an escape of the literal and no backslash reaches the regular
\* expression
normalize_text(setting, input0) ==
  IF setting = "on" THEN SqlError
  ELSE
    LET a == toLowerCase(input0)
        b == SqlTrim(a)
        c == unaccent(b)
        d == regexp_replace(c, <<"\\","b","c","o","n","t","r","o","l","\\","s","*","4","\\","b">>,
                            <<"c","o","n","t","r","o","l","4">>)
        e == regexp_replace(d, <<"\\","b","c","4","\\","b">>,
                            <<"c","o","n","t","r","o","l","4">>)
        f == regexp_replace(e, <<"\\","b","4","\\","s","*","s","i","g","h","t","\\","b">>,
                            <<"4","s","i","g","h","t">>)
        g == regexp_replace(f, <<"\\","b","o","s","\\","s","*","3","\\","b">>, <<"o","s","3">>)
        h == regexp_replace(g, <<"\\","b","o","s","\\","s","*","v","?","3","\\","b">>,
                            <<"o","s","3">>)
        i == regexp_replace(h, <<"\\","b","l","o","g","\\","s","*","i","n","\\","b">>,
                            <<"l","o","g","i","n">>)
        j == regexp_replace(i, <<"\\","b","c","a","n","\\","'","t","\\","b">>,
                            <<"c","a","n","n","o","t">>)
    IN regexp_replace(j, <<"\\","s","+">>, <<" ">>)
----------------------------------------------------------------------------
(* supabase/sql/001_hybrid_search.sql: search_kb_hybrid *)

Oversample == 10

NullInt == [null |-> TRUE, n |-> 0]

SqlInt(n) == [null |-> FALSE, n |-> n]

\* the candidate sets "order by <signal> desc limit lim" can produce from S:
\* rows of equal signal are in no defined order, lim null is no limit
TopSets(S, signal, lim) ==
  IF lim.null \/ lim.n >= Cardinality(S)
    THEN {S}
    ELSE {T \in SUBSET S :
            /\ Cardinality(T) = lim.n
            /\ \A a \in T, b \in S \ T : a[signal] >= b[signal]}

\* the column each candidate set is ordered by
SemScore == "sem"

LexScore == "lex"

TriScore == "tri"

\* candidate sets without a limit
OversampleUnlimited(k) == NullInt

OversampleLimit(k) ==
  IF k.null THEN NullInt ELSE SqlInt(k.n * Oversample)

\* the fused CTE: every row of kb_chunks, left-joined to the three candidate
\* sets, a missing signal coalesced to 0
Fused(passages, semC, lexC, triC) ==
  {[id |-> p.id, content |-> p.content,
    sem_score |-> IF p \in semC THEN p.sem ELSE 0,
    lex_score |-> IF p \in lexC THEN p.lex ELSE 0,
    tri_score |-> IF p \in triC THEN p.tri ELSE 0] : p \in passages}

\* the score with the cosine distance in the place of the similarity
FusedScoreByDistance(f, w_semantic, w_lexical, w_trigram) ==
  w_semantic * (10 - f.sem_score) + w_lexical * f.lex_score + w_trigram * f.tri_score

FusedScore(f, w_semantic, w_lexical, w_trigram) ==
  w_semantic * f.sem_score + w_lexical * f.lex_score + w_trigram * f.tri_score

ScoredRow(f, w_semantic, w_lexical, w_trigram) ==
  [id |-> f.id, content |-> f.content,
   score |-> FusedScore(f, w_semantic, w_lexical, w_trigram),
   sem_score |-> f.sem_score, lex_score |-> f.lex_score, tri_score |-> f.tri_score]

\* the first n rows of R in an order descending in score; the query names
\* no second sort key, so any row of the highest score can come first
RECURSIVE FirstRows(_, _)
FirstRows(R, n) ==
  IF R = {} \/ n = 0 THEN {<<>>}
  ELSE UNION {{<<r>> \o o : o \in FirstRows(R \ {r}, n - 1)} :
                r \in {x \in R : \A y \in R : x.score >= y.score}}

\* order by score desc limit k: a null k is no limit
OrderByScoreDescLimit(R, k) ==
  FirstRows(R, IF k.null THEN Cardinality(R) ELSE k.n)

\* the sem, lex and tri CTEs: the candidate sets the three searches can
\* produce, each limited to k * 10 rows; sem has no filter
Candidates(passages, k) ==
  TopSets(passages, SemScore, OversampleLimit(k))
  \X TopSets({p \in passages : p.lexHit}, LexScore, OversampleLimit(k))
  \X TopSets({p \in passages : p.triHit}, TriScore, OversampleLimit(k))

\* the set of results search_kb_hybrid can return (k >= 0 or null)
search_kb_hybrid(passages, w_semantic, w_lexical, w_trigram, k) ==
  UNION {
    OrderByScoreDescLimit(
      {ScoredRow(f, w_semantic, w_lexical, w_trigram) :
         f \in Fused(passages, c[1], c[2], c[3])}, k) :
    c \in Candidates(passages, k)}

Params(w_semantic, w_lexical, w_trigram, k) ==
  [w_semantic |-> w_semantic, w_lexical |-> w_lexical, w_trigram |-> w_trigram, k |-> k]

NoParams == Params(0, 0, 0, NullInt)

----------------------------------------------------------------------------
(* ask-bot: values *)

NoSession == [src |-> "none", n |-> 0]

ClientSession(n) == [src |-> "client", n |-> n]

\* crypto.randomUUID(): an id no client sent and no earlier request got
randomUUID(n) == [src |-> "uuid", n |-> n]

QAbsent == [t |-> "absent", text |-> <<>>]

QNumber == [t |-> "num", text |-> <<>>]

QStr(s) == [t |-> "str", text |-> s]

\* the body req.json().catch(() => ({})) gives for a body that is not JSON
EmptyBody ==
  [health |-> FALSE, query |-> QAbsent, top_k |-> Absent, w_semantic |-> Absent,
   w_lexical |-> Absent, w_trigram |-> Absent, session_id |-> NoSession,
   max_history |-> Absent]

EnvOk == [SUPABASE_URL |-> TRUE, SERVICE_ROLE |-> TRUE, OPENAI_API_KEY |-> TRUE]

NoResponse == [status |-> 0, kind |-> "none"]

ErrorResponse(status, error) == [status |-> status, kind |-> "error", error |-> error]

LocInit ==
  [query |-> <<>>, qNorm |-> <<>>, topK |-> NaN, w_semantic |-> 0, w_lexical |-> 0, w_trigram |-> 0,
   sessionId |-> NoSession, maxHistoryMessages |-> NaN, hits |-> <<>>,
   topForLLM |-> <<>>, context |-> <<>>, conversationHistory |-> <<>>,
   embRes |-> "", rpcRes |-> "", historyRes |-> "", chatRes |-> "", messages |-> <<>>, answer |-> <<>>,
   needsHumanHelp |-> FALSE, citations |-> <<>>]

Call(svc) ==
  [svc |-> svc, input |-> <<>>, q_text |-> <<>>, k |-> NaN, session |-> NoSession, limit |-> 0, messages |-> <<>>,
   role |-> "", content |-> <<>>]

----------------------------------------------------------------------------
(* ask-bot: pure parts of the handler *)

\* const topK = Math.max(1, Math.min(Number(body?.top_k ?? 10), 25))
TopK(body) ==
  MathMax(Int2Num(1), MathMin(NumberOr(body.top_k, 10), Int2Num(25)))

\* the test without typeof: !query alone lets a number through
InvalidQueryFalsyOnly(q) ==
  \/ q.t = "absent"
  \/ q.t = "str" /\ Len(q.text) = 0

\* !query || typeof query !== "string"
InvalidQuery(q) ==
  \/ q.t = "absent"
  \/ q.t = "str" /\ Len(q.text) = 0
  \/ q.t # "str"

\* hits.slice(0, Math.min(hits.length, topK))
TopForLLM(hits, topK) ==
  SliceTo(hits, ToInteger(MathMin(Int2Num(Len(hits)), topK)))

\* the context string: one block "[#i | score=s]\ncontent" per passage,
\* joined by a blank line
Context(topForLLM) ==
  [i \in 1..Len(topForLLM) |->
     [marker |-> i, score |-> toFixed3(topForLLM[i].score),
      content |-> topForLLM[i].content]]

SnippetMax == 240

\* content.slice(0, 240), and the one-character ellipsis when content is longer
Snippet(content) ==
  IF Len(content) > SnippetMax
    THEN Append(SubSeq(content, 1, SnippetMax), "...")
    ELSE content

\* the sql function returns no source_title, source_url or updated_at
Citations(topForLLM) ==
  [i \in 1..Len(topForLLM) |->
     [index |-> i, title |-> "Knowledge Base Article", url |-> "#",
      snippet |-> Snippet(topForLLM[i].content), score |-> topForLLM[i].score]]

isNoAnswer(answer) ==
  \E pattern \in noAnswerPatterns : RegexTestI(pattern, answer)

isSocialQuestion(query) ==
  \E pattern \in socialPatterns : RegexTestI(pattern, query)

needsHumanHelp(h, query, answer, hits) ==
  IF h = "conversational"
    THEN ~isSocialQuestion(query) /\ (isNoAnswer(answer) \/ Len(hits) = 0)
    ELSE isNoAnswer(answer) \/ Len(hits) = 0

\* chatRes?.choices?.[0]?.message?.content ?? (hits.length ? ... : ...)
Answer(h, chat, hits) ==
  IF chat.t = "content"
    THEN chat.text
    ELSE IF h = "conversational"
      THEN IF Len(hits) > 0 THEN FallbackNotSure ELSE FallbackNoInfo
      ELSE IF Len(hits) > 0 THEN FallbackDontKnow ELSE FallbackNotFound

Message(role, text, context) == [role |-> role, text |-> text, context |-> context]

\* the context block placed in the system instruction as well
MessagesContextInSystem(h, query, context, conversationHistory, maxHistoryMessages) ==
  <<Message("system", IF h = "conversational" THEN SystemConversational ELSE SystemConcise,
            context)>>
  \o (IF h = "conversational" /\ Len(conversationHistory) > 0
        THEN SliceLast(conversationHistory, -maxHistoryMessages.h)
        ELSE <<>>)
  \o <<Message("user", query, context)>>

\* the final user turn: the query, then "CONTEXT:" and the context block
Messages(h, query, context, conversationHistory, maxHistoryMessages) ==
  IF h = "conversational"
    THEN <<Message("system", SystemConversational, <<>>)>>
         \o (IF Len(conversationHistory) > 0
               THEN SliceLast(conversationHistory, -maxHistoryMessages.h)
               ELSE <<>>)
         \o <<Message("user", query, context)>>
    ELSE <<Message("system", SystemConcise, <<>>),
           Message("user", UserQuestion \o query, context)>>

\* the select without .eq('session_id', s): the turns of every session
SelectHistoryOfAllSessions(table, s, n) ==
  SliceTo(SortSeq(table, LAMBDA a, b : a.timestamp < b.timestamp), n)

\* .eq('session_id', s).order('timestamp', {ascending: true}).limit(n)
SelectHistory(table, s, n) ==
  LET mine == SelectSeq(table, LAMBDA r : r.session_id = s)
      byTime == SortSeq(mine, LAMBDA a, b : a.timestamp < b.timestamp)
  IN SliceTo(byTime, n)

\* the test of the embedding left out
EmbeddingMissingUnchecked(outcome) == FALSE

\* !embedding, with embedding = embRes?.data?.[0]?.embedding
EmbeddingMissing(outcome) == outcome = "noEmbedding"

\* the error of the rpc left untested
RpcErrorUnchecked(outcome) == FALSE

\* if (error), with { data: rows, error } the answer of supabase.rpc
RpcError(outcome) == outcome = "error"

----------------------------------------------------------------------------
(* Inputs *)

Passage(id, content, sem, lexHit, lex, triHit, tri) ==
  [id |-> id, content |-> content, sem |-> sem, lexHit |-> lexHit, lex |-> lex,
   triHit |-> triHit, tri |-> tri]

\* kb_chunks and the scores of its passages against the query: empty, two
\* passages of equal scores, three passages of different scores
KnowledgeBases ==
  { {},
    {Passage(1, ContentA, 8, TRUE, 4, FALSE, 0), Passage(2, ContentB, 8, TRUE, 4, FALSE, 0)},
    {Passage(1, ContentA, 2, FALSE, 0, FALSE, 0), Passage(2, ContentB, 9, TRUE, 5, TRUE, 3),
     Passage(3, ContentC, 6, FALSE, 0, TRUE, 7)} }

Queries == {QHiThere, QThanks, QRemote}

\* the query of the end-to-end scenario of normalization
QControl4Login ==
  <<"c","o","n","t","r","o","l"," ","4"," ","a","p","p"," ","w","o","n","'","t"," ",
    "l","o","g","i","n">>

\* bodies with a valid query: every query with every session_id and
\* max_history, and the typical body with every top_k
PipelineBodies ==
  {[EmptyBody EXCEPT !.query = QStr(q), !.session_id = s, !.max_history = m] :
     q \in Queries,
     s \in {NoSession, ClientSession(1)},
     m \in {Absent, JNum(2), JNum(0), JText}}
  \cup {[EmptyBody EXCEPT !.query = QStr(QRemote), !.top_k = k] :
          k \in {JNum(2), JNum(5), JNum(60), JText}}

InvalidBodies ==
  {[EmptyBody EXCEPT !.query = q, !.session_id = s] :
     q \in {QAbsent, QStr(<<>>), QNumber}, s \in {NoSession, ClientSession(1)}}

Request(method, parseable, body, env) ==
  [method |-> method, parseable |-> parseable, body |-> body, env |-> env]

TypicalBody == [EmptyBody EXCEPT !.query = QStr(QRemote)]

Requests ==
  {Request(m, TRUE, TypicalBody, EnvOk) : m \in {"OPTIONS", "GET"}}
  \cup {Request("POST", FALSE, TypicalBody, EnvOk),
        Request("POST", TRUE, [EmptyBody EXCEPT !.health = TRUE], EnvOk),
        Request("POST", TRUE, [TypicalBody EXCEPT !.w_semantic = JNum(1000)], EnvOk),
        Request("POST", TRUE, [EmptyBody EXCEPT !.query = QStr(QControl4Login)], EnvOk)}
  \cup {Request("POST", TRUE, TypicalBody, e) :
          e \in {[EnvOk EXCEPT !.SUPABASE_URL = FALSE],
                 [EnvOk EXCEPT !.SERVICE_ROLE = FALSE],
                 [EnvOk EXCEPT !.OPENAI_API_KEY = FALSE]}}
  \cup {Request("POST", TRUE, b, EnvOk) : b \in PipelineBodies \cup InvalidBodies}

IdleRequest == Request("", FALSE, EmptyBody, EnvOk)

\* what the generation service can answer
ChatOutcomes ==
  {[t |-> "throw", text |-> <<>>], [t |-> "noContent", text |-> <<>>]}
  \cup {[t |-> "content", text |-> a] : a \in {AnsCited, AnsUnsure, AnsWelcome}}

Turn(session, role, content, timestamp) ==
  [session_id |-> session, role |-> role, content |-> content, timestamp |-> timestamp]

\* chat_messages when the first request of a behaviour arrives: empty, or
\* the four turns two earlier requests of one client session have stored
StoredExchanges ==
  <<Turn(ClientSession(1), "user", QHiThere, 1),
    Turn(ClientSession(1), "assistant", AnsWelcome, 2),
    Turn(ClientSession(1), "user", QRemote, 3),
    Turn(ClientSession(1), "assistant", AnsUnsure, 4)>>

----------------------------------------------------------------------------
(* Inputs of a direct call of normalizeLocal *)

MaxTokens == 4

Tokens ==
  { <<"c","o","n","t","r","o","l">>, <<"4">>, <<"s","i","g","h","t">>, <<"O","S">>,
    <<"v">>, <<"3">>, <<" ">>, <<TradeMark>>, <<"C","a","f",EAcute>> }

\* the texts made of at most n tokens
RECURSIVE TextsOf(_)
TextsOf(n) ==
  IF n = 0 THEN {<<>>}
  ELSE LET shorter == TextsOf(n - 1)
       IN shorter \cup {t \o token : t \in shorter, token \in Tokens}

NormalizerInputs == TextsOf(MaxTokens) \cup Queries \cup {QControl4Login}

----------------------------------------------------------------------------
(* Inputs of a direct call of search_kb_hybrid *)

MaxPassages == 3

PassageContent(id) ==
  CASE id = 1 -> ContentA [] id = 2 -> ContentB [] OTHER -> ContentC

\* what a passage can score against the query: a cosine similarity, and a
\* text rank and a trigram similarity when those searches match it
SignalScores ==
  {<<sem, lex[1], lex[2], tri[1], tri[2]>> :
     sem \in {2, 8}, lex \in {<<FALSE, 0>>, <<TRUE, 4>>}, tri \in {<<FALSE, 0>>, <<TRUE, 6>>}}

\* a knowledge base of one passage more than a candidate set of k = 1 holds:
\* the text search matches all but the last passage, the query is unlike
\* every passage and least like the last
LargeKnowledgeBase ==
  {Passage(id, PassageContent(id), 1 - id, TRUE, Oversample + 1 - id, FALSE, 0) :
     id \in 1..Oversample}
  \cup {Passage(Oversample + 1, PassageContent(Oversample + 1), 0 - Oversample,
                FALSE, 0, FALSE, 0)}

FusionKnowledgeBases ==
  {LargeKnowledgeBase} \cup
  UNION {
    {{Passage(id, PassageContent(id), sc[id][1], sc[id][2], sc[id][3], sc[id][4], sc[id][5]) :
        id \in ids} : sc \in [ids -> SignalScores]} :
    ids \in SUBSET (1..MaxPassages)}

\* by how much a second call raises w_semantic
WeightSteps == {50, 450}

FusionParams ==
  {Params(w[1], w[2], w[3], k) :
     w \in {<<550, 350, 100>>, <<1000, 0, 0>>, <<0, 500, 500>>, <<100, -500, 0>>},
     k \in {NullInt, SqlInt(0), SqlInt(1), SqlInt(2)}}

----------------------------------------------------------------------------
(* ask-bot: the handler, one action per stretch between two awaits *)

Respond(r) ==
  /\ resp' = r
  /\ pc' = "done"

\* a catch that returns nothing
Unanswered == NoResponse

\* catch (e): 500 "Unhandled error"
Unhandled == ErrorResponse(500, "Unhandled error")

Success ==
  [status |-> 200, kind |-> "answer", answer |-> loc'.answer,
   citations |-> loc'.citations, sources |-> loc'.hits,
   needs_human_help |-> loc'.needsHumanHelp, session_id |-> loc'.sessionId]

\* from the arrival of the request to the embedding call
Receive(r) ==
  LET body == IF r.parseable THEN r.body ELSE EmptyBody
      sessionId == IF body.session_id = NoSession
                     THEN randomUUID(served + 1) ELSE body.session_id
  IN
  /\ pc = "idle"
  /\ served < MaxRequests
  /\ served' = served + 1
  /\ req' = r
  /\ store0' = store
  /\ UNCHANGED <<aside, handler, kb, store, rows, params>>
  /\ IF r.method = "OPTIONS"
       THEN /\ Respond([status |-> 204, kind |-> "empty"])
            /\ UNCHANGED <<loc, calls>>
     ELSE IF r.method # "POST"
       THEN /\ Respond(ErrorResponse(405, "Use POST"))
            /\ UNCHANGED <<loc, calls>>
     ELSE IF body.health
       THEN /\ Respond([status |-> 200, kind |-> "health"])
            /\ UNCHANGED <<loc, calls>>
     ELSE
       /\ loc' = [loc EXCEPT
                    !.query = body.query.text,
                    !.qNorm = normalizeLocal(body.query.text),
                    !.topK = TopK(body),
                    !.w_semantic = FiniteOr(body.w_semantic, 550),
                    !.w_lexical = FiniteOr(body.w_lexical, 350),
                    !.w_trigram = FiniteOr(body.w_trigram, 100),
                    !.sessionId = sessionId,
                    !.maxHistoryMessages = NumberOr(body.max_history, 4)]
       /\ IF InvalidQuery(body.query)
            THEN /\ Respond(ErrorResponse(400, "Missing 'query' (string)"))
                 /\ UNCHANGED calls
          ELSE IF ~r.env.SUPABASE_URL
            THEN /\ Respond(ErrorResponse(500, "Missing SUPABASE_URL env"))
                 /\ UNCHANGED calls
          ELSE IF ~r.env.SERVICE_ROLE
            THEN /\ Respond(ErrorResponse(500, "Missing SERVICE_ROLE_KEY env"))
                 /\ UNCHANGED calls
          ELSE IF ~r.env.OPENAI_API_KEY
            THEN /\ Respond(ErrorResponse(500, "Missing OPENAI_API_KEY env"))
                 /\ UNCHANGED calls
          ELSE
            /\ calls' = Append(calls, [Call("embedding") EXCEPT !.input = loc'.qNorm])
            /\ pc' = "embedding"
            /\ UNCHANGED resp

\* a handler that asks for the embedding a second time when the first request
\* for it throws
EmbeddingReturnsWithRetry(outcome) ==
  /\ pc = "embedding"
  /\ UNCHANGED <<aside, handler, kb, store, store0, req, served, rows, params>>
  /\ loc' = [loc EXCEPT !.embRes = outcome]
  /\ IF outcome = "throw" /\ Len(calls) = 1
       THEN /\ calls' = Append(calls, [Call("embedding") EXCEPT !.input = loc.qNorm])
            /\ UNCHANGED <<pc, resp>>
     ELSE IF outcome = "throw"
       THEN /\ Respond(Unhandled)
            /\ UNCHANGED calls
     ELSE IF EmbeddingMissing(outcome)
       THEN /\ Respond(ErrorResponse(502, "Failed to get embedding"))
            /\ UNCHANGED calls
     ELSE /\ calls' = Append(calls, [Call("search_kb_hybrid") EXCEPT
                                  !.q_text = loc.qNorm, !.k = loc.topK])
          /\ pc' = "search"
          /\ UNCHANGED resp

\* from the answer of the embedding service to the search_kb_hybrid rpc
EmbeddingReturns(outcome) ==
  /\ pc = "embedding"
  /\ UNCHANGED <<aside, handler, kb, store, store0, req, served, rows, params>>
  /\ loc' = [loc EXCEPT !.embRes = outcome]
  /\ IF outcome = "throw"
       THEN /\ Respond(Unhandled)
            /\ UNCHANGED calls
     ELSE IF EmbeddingMissing(outcome)
       THEN /\ Respond(ErrorResponse(502, "Failed to get embedding"))
            /\ UNCHANGED calls
     ELSE /\ calls' = Append(calls, [Call("search_kb_hybrid") EXCEPT
                                  !.q_text = loc.qNorm, !.k = loc.topK])
          /\ pc' = "search"
          /\ UNCHANGED resp

\* a handler that calls the generation service only when there are hits
AfterSearchWithHitsOnly ==
  IF handler = "conversational" /\ Positive(loc'.maxHistoryMessages)
    THEN /\ calls' = Append(calls, [Call("history") EXCEPT
                                      !.session = loc'.sessionId,
                                      !.limit = loc'.maxHistoryMessages.h])
         /\ pc' = "history"
    ELSE /\ calls' = IF Len(loc'.hits) = 0
                       THEN calls
                       ELSE Append(calls, [Call("chat") EXCEPT !.messages = loc'.messages])
         /\ pc' = "chat"

\* the chat completion request, or before it the history fetch
AfterSearch ==
  IF handler = "conversational" /\ Positive(loc'.maxHistoryMessages)
    THEN /\ calls' = Append(calls, [Call("history") EXCEPT
                                      !.session = loc'.sessionId,
                                      !.limit = loc'.maxHistoryMessages.h])
         /\ pc' = "history"
    ELSE /\ calls' = Append(calls, [Call("chat") EXCEPT !.messages = loc'.messages])
         /\ pc' = "chat"

\* what the rpc can answer: JSON.stringify sends NaN as null, and an int
\* parameter does not take 2.5
RpcResults ==
  IF loc.topK.nan
    THEN search_kb_hybrid(kb, loc.w_semantic, loc.w_lexical, loc.w_trigram, NullInt)
    ELSE IF IsInteger(loc.topK)
      THEN search_kb_hybrid(kb, loc.w_semantic, loc.w_lexical, loc.w_trigram,
                            SqlInt(ToInteger(loc.topK)))
      ELSE {}

\* from the answer of search_kb_hybrid to the next await; rows is null when
\* the rpc answers an error, and Array.isArray(rows) ? rows : [] is then []
SearchReturns(outcome) ==
  /\ pc = "search"
  /\ UNCHANGED <<aside, handler, kb, store, store0, req, served, rows, params>>
  /\ IF outcome = "throw"
       THEN /\ loc' = [loc EXCEPT !.rpcRes = outcome]
            /\ Respond(Unhandled)
            /\ UNCHANGED calls
     ELSE IF RpcError(outcome)
       THEN /\ loc' = [loc EXCEPT !.rpcRes = outcome]
            /\ Respond(ErrorResponse(502, "Hybrid search failed"))
            /\ UNCHANGED calls
     ELSE \E data \in (IF outcome = "rows" THEN RpcResults ELSE {<<>>}) :
            LET topForLLM == TopForLLM(data, loc.topK)
                context == Context(topForLLM)
            IN
            /\ loc' = [loc EXCEPT
                         !.rpcRes = outcome,
                         !.hits = data,
                         !.topForLLM = topForLLM,
                         !.context = context,
                         !.messages = Messages(handler, loc.query, context, <<>>,
                                               loc.maxHistoryMessages)]
            /\ AfterSearch
            /\ UNCHANGED resp

\* the fetch without its try/catch and error test: a failure reaches the
\* outer catch
HistoryReturnsUncaught(outcome) ==
  LET historyData == SelectHistory(store, loc.sessionId, loc.maxHistoryMessages.h)
      conversationHistory ==
        [i \in 1..Len(historyData) |->
           Message(historyData[i].role, historyData[i].content, <<>>)]
  IN
  /\ pc = "history"
  /\ UNCHANGED <<aside, handler, kb, store, store0, req, served, rows, params>>
  /\ IF outcome = "data"
       THEN /\ loc' = [loc EXCEPT
                         !.conversationHistory = conversationHistory,
                         !.historyRes = outcome,
                         !.messages = Messages(handler, loc.query, loc.context,
                                               conversationHistory,
                                               loc.maxHistoryMessages)]
            /\ calls' = Append(calls, [Call("chat") EXCEPT !.messages = loc'.messages])
            /\ pc' = "chat"
            /\ UNCHANGED resp
       ELSE /\ loc' = [loc EXCEPT !.historyRes = outcome]
            /\ Respond(Unhandled)
            /\ UNCHANGED calls

\* from the answer of the history fetch to the chat completion request
HistoryReturns(outcome) ==
  LET historyData == SelectHistory(store, loc.sessionId, loc.maxHistoryMessages.h)
      conversationHistory ==
        IF outcome = "data"
          THEN [i \in 1..Len(historyData) |->
                  Message(historyData[i].role, historyData[i].content, <<>>)]
          ELSE <<>>
  IN
  /\ pc = "history"
  /\ UNCHANGED <<aside, handler, kb, store, store0, req, served, rows, params, resp>>
  /\ loc' = [loc EXCEPT
               !.conversationHistory = conversationHistory,
               !.historyRes = outcome,
               !.messages = Messages(handler, loc.query, loc.context,
                                     conversationHistory, loc.maxHistoryMessages)]
  /\ calls' = Append(calls, [Call("chat") EXCEPT !.messages = loc'.messages])
  /\ pc' = "chat"

InsertCall(role, content) ==
  [Call("insert") EXCEPT !.session = loc'.sessionId, !.role = role, !.content = content]

\* from the answer of the generation service to the insert of the user turn
ChatReturns(chat) ==
  /\ pc = "chat"
  /\ UNCHANGED <<aside, handler, kb, store, store0, req, served, rows, params>>
  /\ IF chat.t = "throw"
       THEN /\ loc' = [loc EXCEPT !.chatRes = chat.t]
            /\ Respond(Unhandled)
            /\ UNCHANGED calls
       ELSE LET answer == Answer(handler, chat, loc.hits)
            IN
            /\ loc' = [loc EXCEPT
                         !.chatRes = chat.t,
                         !.answer = answer,
                         !.needsHumanHelp =
                           needsHumanHelp(handler, loc.query, answer, loc.hits),
                         !.citations = Citations(loc.topForLLM)]
            /\ calls' = Append(calls, InsertCall("user", loc.query))
            /\ pc' = "insertUser"
            /\ UNCHANGED resp

\* a row that holds the lower-cased text instead of the text itself
RowLowered(role, content) ==
  Turn(loc.sessionId, role, toLowerCase(content), Len(store) + 1)

\* the row of an insert; timestamp is the time of the insert, and no two
\* inserts of the model happen in the same millisecond
Row(role, content) ==
  Turn(loc.sessionId, role, content, Len(store) + 1)

\* the inserts without their try/catch: a throw reaches the outer catch
InsertUserReturnsUncaught(outcome) ==
  /\ pc = "insertUser"
  /\ UNCHANGED <<aside, handler, kb, store0, req, loc, served, rows, params>>
  /\ store' = IF outcome = "ok" THEN Append(store, Row("user", loc.query)) ELSE store
  /\ IF outcome = "throw"
       THEN /\ Respond(Unhandled)
            /\ UNCHANGED calls
       ELSE /\ calls' = Append(calls, InsertCall("assistant", loc.answer))
            /\ pc' = "insertAssistant"
            /\ UNCHANGED resp

\* the first insert is answered: on a throw the catch skips the second
InsertUserReturns(outcome) ==
  /\ pc = "insertUser"
  /\ UNCHANGED <<aside, handler, kb, store0, req, loc, served, rows, params>>
  /\ store' = IF outcome = "ok" THEN Append(store, Row("user", loc.query)) ELSE store
  /\ IF outcome = "throw"
       THEN /\ Respond(Success)
            /\ UNCHANGED calls
       ELSE /\ calls' = Append(calls, InsertCall("assistant", loc.answer))
            /\ pc' = "insertAssistant"
            /\ UNCHANGED resp

\* the second insert outside the try/catch: a throw reaches the outer catch
InsertAssistantReturnsUncaught(outcome) ==
  /\ pc = "insertAssistant"
  /\ UNCHANGED <<aside, handler, kb, store0, req, loc, served, rows, params, calls>>
  /\ store' = IF outcome = "ok"
                THEN Append(store, Row("assistant", loc.answer)) ELSE store
  /\ Respond(IF outcome = "throw" THEN Unhandled ELSE Success)

\* an upsert keyed by session: the assistant turn replaces the last row
InsertAssistantReturnsUpsert(outcome) ==
  /\ pc = "insertAssistant"
  /\ UNCHANGED <<aside, handler, kb, store0, req, loc, served, rows, params, calls>>
  /\ store' = IF outcome # "ok" THEN store
              ELSE IF Len(store) = 0 THEN <<Row("assistant", loc.answer)>>
              ELSE [store EXCEPT ![Len(store)] = Row("assistant", loc.answer)]
  /\ Respond(Success)

\* the second insert is answered: the response is sent
InsertAssistantReturns(outcome) ==
  /\ pc = "insertAssistant"
  /\ UNCHANGED <<aside, handler, kb, store0, req, loc, served, rows, params, calls>>
  /\ store' = IF outcome = "ok"
                THEN Append(store, Row("assistant", loc.answer)) ELSE store
  /\ Respond(Success)

\* the request is over; the next one finds only the table as it was left
Finish ==
  /\ pc = "done"
  /\ pc' = "idle"
  /\ req' = IdleRequest
  /\ loc' = LocInit
  /\ calls' = <<>>
  /\ resp' = NoResponse
  /\ UNCHANGED <<aside, handler, kb, store, store0, served, rows, params>>

----------------------------------------------------------------------------
(* kb-sync: the Freshdesk articles, kb_chunks, kb_sync_state and one run of *)
(* the function at a time.  Times are instants of one clock; an edit of an  *)
(* article and the checkpoint of a run each take the next instant.          *)

MaxArticles == 2

MaxSyncClock == 5

ArticleIds == 1..MaxArticles

\* a Freshdesk article: when it was last modified and whether its
\* description is empty once the HTML is stripped
Article(updated_at, empty) == [updated_at |-> updated_at, empty |-> empty]

\* no row in kb_sync_state, no chunk of an article in kb_chunks
Never == 0

\* every article written at instant 1, nothing indexed, no checkpoint
SyncInit ==
  [articles |-> [a \in ArticleIds |-> Article(1, FALSE)],
   kb_chunks |-> [a \in ArticleIds |-> Never],
   last_synced_at |-> Never,
   now |-> 2,
   pc |-> "idle",
   selected |-> <<>>,
   status |-> 0]

\* an author saves article a in Freshdesk
EditArticle(a, empty) ==
  /\ sync.now < MaxSyncClock
  /\ sync' = [sync EXCEPT !.articles[a] = Article(sync.now, empty),
                          !.now = @ + 1]
  /\ UNCHANGED <<askBot, widget>>

\* the ids 1..n in ascending order
RECURSIVE Ascending(_)
Ascending(n) == IF n = 0 THEN <<>> ELSE Append(Ascending(n - 1), n)

\* the articles a listing keeps: all of them without a checkpoint, else
\* those with updated_at > since
ArticlesSince(articles, since) ==
  SelectSeq(Ascending(MaxArticles),
            LAMBDA a : since = Never \/ articles[a].updated_at > since)

\* a run starts: it reads the checkpoint and lists the articles; a listing
\* request that fails ends the run with 500
StartSync(full, outcome) ==
  /\ sync.pc = "idle"
  /\ sync' = IF outcome = "throw"
               THEN [sync EXCEPT !.status = 500]
               ELSE [sync EXCEPT
                       !.pc = "articles",
                       !.status = 0,
                       !.selected =
                         ArticlesSince(sync.articles,
                                       IF full THEN Never ELSE sync.last_synced_at)]
  /\ UNCHANGED <<askBot, widget>>

\* the run handles its next article: detail, embeddings, delete, insert.
\* An empty description skips the article; a failed request or insert ends
\* the run with 500, after the delete when it is the insert that failed
SyncArticle(outcome) ==
  LET a == Head(sync.selected)
      detail == sync.articles[a]
  IN
  /\ sync.pc = "articles"
  /\ sync.selected # <<>>
  /\ sync' =
       IF outcome = "throw"
         THEN [sync EXCEPT !.pc = "idle", !.status = 500, !.selected = <<>>]
       ELSE IF detail.empty
         THEN [sync EXCEPT !.selected = Tail(@)]
       ELSE IF outcome = "insertError"
         THEN [sync EXCEPT !.pc = "idle", !.status = 500, !.selected = <<>>,
                           !.kb_chunks[a] = Never]
       ELSE [sync EXCEPT !.selected = Tail(@),
                         !.kb_chunks[a] = detail.updated_at]
  /\ UNCHANGED <<askBot, widget>>

\* every selected article is handled: the checkpoint is set to the current
\* instant (the result of the upsert is not read) and the run answers 200
Checkpoint(outcome) ==
  /\ sync.pc = "articles"
  /\ sync.selected = <<>>
  /\ sync.now < MaxSyncClock
  /\ sync' = [sync EXCEPT
                !.pc = "idle",
                !.status = 200,
                !.last_synced_at = IF outcome = "ok" THEN sync.now ELSE @,
                !.now = @ + 1]
  /\ UNCHANGED <<askBot, widget>>
----------------------------------------------------------------------------
(* SupportBotWidget: the React state of the component and the requests it   *)
(* has sent that are not answered yet.  An event handler runs on the state  *)
(* of the latest render.                                                    *)

MaxSends == 3

\* what the visitor can have in the input field
WidgetInputs == {<<>>, <<" ">>, QHiThere}

Greeting == [role |-> "assistant", kind |-> "greeting"]

WidgetInit ==
  [open |-> FALSE, loading |-> FALSE, messages |-> <<Greeting>>, input |-> <<>>,
   inFlight |-> <<>>, sends |-> 0]

\* the floating button opens and closes the panel
ToggleOpen ==
  /\ widget' = [widget EXCEPT !.open = ~@]
  /\ UNCHANGED <<askBot, sync>>

\* onChange of the input field
TypeInput(text) ==
  /\ widget.open
  /\ widget' = [widget EXCEPT !.input = text]
  /\ UNCHANGED <<askBot, sync>>

\* send() up to its await of fetch: nothing for an input that trims to the
\* empty text, else the user message, the cleared field, loading and the
\* request
send ==
  LET q == Trim(widget.input)
  IN IF q = <<>> THEN widget' = widget
     ELSE /\ widget.sends < MaxSends
          /\ widget' = [widget EXCEPT
                          !.messages = Append(@, [role |-> "user", kind |-> "question"]),
                          !.input = <<>>,
                          !.loading = TRUE,
                          !.inFlight = Append(@, q),
                          !.sends = @ + 1]

\* onKeyDown of the input field, key Enter
PressEnter ==
  /\ widget.open
  /\ send
  /\ UNCHANGED <<askBot, sync>>

\* onClick of the Send button, which is disabled while loading
ClickSend ==
  /\ widget.open
  /\ ~widget.loading
  /\ send
  /\ UNCHANGED <<askBot, sync>>

RemoveAt(s, i) == SubSeq(s, 1, i - 1) \o SubSeq(s, i + 1, Len(s))

\* the rest of send() for the request at position i of those in flight: the
\* answer, with the ticket question after it when needs_human_help is true,
\* or the apology of the catch; finally loading is false
Responded(i, outcome) ==
  /\ i \in 1..Len(widget.inFlight)
  /\ widget' = [widget EXCEPT
       !.messages =
         CASE outcome = "answer" -> Append(@, [role |-> "assistant", kind |-> "answer"])
           [] outcome = "handoff" ->
                @ \o <<[role |-> "assistant", kind |-> "answer"],
                       [role |-> "assistant", kind |-> "ticket"]>>
           [] outcome = "throw" -> Append(@, [role |-> "assistant", kind |-> "apology"]),
       !.loading = FALSE,
       !.inFlight = RemoveAt(@, i)]
  /\ UNCHANGED <<askBot, sync>>
----------------------------------------------------------------------------
(* Specification *)

Init ==
  /\ handler \in {"index", "conversational"}
  /\ kb \in KnowledgeBases
  /\ store \in {<<>>, StoredExchanges}
  /\ pc = "idle"
  /\ req = IdleRequest
  /\ loc = LocInit
  /\ calls = <<>>
  /\ resp = NoResponse
  /\ served = 0
  /\ store0 = store
  /\ params = NoParams
  /\ rows = <<>>
  /\ rows0 = <<>>
  /\ input = <<>>
  /\ output = <<>>
  /\ procs = <<>>
  /\ clock = 0
  /\ sync = SyncInit
  /\ widget = WidgetInit

Next ==
  \/ \E r \in Requests : Receive(r)
  \/ \E o \in {"embedding", "noEmbedding", "throw"} : EmbeddingReturns(o)
  \/ \E o \in {"rows", "error", "throw"} : SearchReturns(o)
  \/ \E o \in {"data", "error", "throw"} : HistoryReturns(o)
  \/ \E c \in ChatOutcomes : ChatReturns(c)
  \/ \E o \in {"ok", "error", "throw"} : InsertUserReturns(o)
  \/ \E o \in {"ok", "error", "throw"} : InsertAssistantReturns(o)
  \/ Finish

Spec == Init /\ [][Next]_vars

\* every awaited call settles, with a result or an exception, and the
\* handler resumes after it
CallsSettle ==
  /\ WF_vars(\E o \in {"embedding", "noEmbedding", "throw"} : EmbeddingReturns(o))
  /\ WF_vars(\E o \in {"rows", "error", "throw"} : SearchReturns(o))
  /\ WF_vars(\E o \in {"data", "error", "throw"} : HistoryReturns(o))
  /\ WF_vars(\E c \in ChatOutcomes : ChatReturns(c))
  /\ WF_vars(\E o \in {"ok", "error", "throw"} : InsertUserReturns(o))
  /\ WF_vars(\E o \in {"ok", "error", "throw"} : InsertAssistantReturns(o))

SpecSettling == Spec /\ CallsSettle

\* a direct call of search_kb_hybrid on a table of passages
Retrieve ==
  /\ pc = "idle"
  /\ \E result \in search_kb_hybrid(kb, params.w_semantic, params.w_lexical,
                                     params.w_trigram, params.k) :
       rows' = result
  /\ pc' = "returned"
  /\ UNCHANGED <<aside, handler, kb, store, req, loc, calls, resp, served, store0, params>>

InitFusion ==
  /\ handler = "index"
  /\ kb \in FusionKnowledgeBases
  /\ store = <<>>
  /\ pc = "idle"
  /\ req = IdleRequest
  /\ loc = LocInit
  /\ calls = <<>>
  /\ resp = NoResponse
  /\ served = 0
  /\ store0 = <<>>
  /\ params \in FusionParams
  /\ rows = <<>>
  /\ rows0 = <<>>
  /\ input = <<>>
  /\ output = <<>>
  /\ procs = <<>>
  /\ clock = 0
  /\ sync = SyncInit
  /\ widget = WidgetInit

\* the same call again, with a higher w_semantic and the other parameters
\* as they were
RetrieveReweighted(step) ==
  /\ pc = "returned"
  /\ params' = [params EXCEPT !.w_semantic = @ + step]
  /\ rows0' = rows
  /\ \E result \in search_kb_hybrid(kb, params'.w_semantic, params'.w_lexical,
                                     params'.w_trigram, params'.k) :
       rows' = result
  /\ pc' = "reweighted"
  /\ UNCHANGED <<handler, kb, store, req, loc, calls, resp, served, store0, input,
                 output, procs, clock, sync, widget>>

NextFusion ==
  \/ Retrieve
  \/ \E step \in WeightSteps : RetrieveReweighted(step)

SpecFusion == InitFusion /\ [][NextFusion]_vars

\* a direct call of normalizeLocal on a text
Normalize ==
  /\ pc = "idle"
  /\ output' = normalizeLocal(input)
  /\ pc' = "normalized"
  /\ UNCHANGED <<handler, kb, store, req, loc, calls, resp, served, store0, params,
                 rows, rows0, input, procs, clock, sync, widget>>

InitNormalize ==
  /\ handler = "index"
  /\ kb = {}
  /\ store = <<>>
  /\ pc = "idle"
  /\ req = IdleRequest
  /\ loc = LocInit
  /\ calls = <<>>
  /\ resp = NoResponse
  /\ served = 0
  /\ store0 = <<>>
  /\ params = NoParams
  /\ rows = <<>>
  /\ rows0 = <<>>
  /\ input \in NormalizerInputs
  /\ output = <<>>
  /\ procs = <<>>
  /\ clock = 0
  /\ sync = SyncInit
  /\ widget = WidgetInit

NextNormalize == Normalize

SpecNormalize == InitNormalize /\ [][NextNormalize]_vars

----------------------------------------------------------------------------
(* ask-bot: concurrent invocations of the handler on one chat_messages     *)
(* table.  An invocation shares nothing with another but the table; its    *)
(* steps up to the first access to the table (validation, embedding,       *)
(* search) touch no shared state and are one step here.  The knowledge     *)
(* base is empty, so every search returns no rows.                         *)

MaxProcs == 2

MaxClock == 7

Procs == 1..MaxProcs

ProcInit ==
  [pc |-> "idle", sessionId |-> NoSession, query |-> <<>>,
   maxHistoryMessages |-> NaN, history |-> <<>>, answer |-> <<>>,
   ts |-> 0, appended |-> <<>>, status |-> 0]

\* the bodies invocation p can be given: its query, with the session_id of
\* one of two client sessions or none
ConcurrentBodies(p) ==
  {[EmptyBody EXCEPT !.query = QStr(IF p = 1 THEN QHiThere ELSE QRemote),
                     !.session_id = s] :
     s \in {NoSession, ClientSession(1), ClientSession(2)}}

\* what the generation service answers in concurrent runs
ConcurrentChatOutcomes ==
  {[t |-> "throw", text |-> <<>>], [t |-> "noContent", text |-> <<>>],
   [t |-> "content", text |-> AnsCited]}

\* time passes
Tick ==
  /\ clock < MaxClock
  /\ clock' = clock + 1
  /\ UNCHANGED <<handler, kb, store, pc, req, loc, calls, resp, served, store0, params,
                 rows, rows0, input, output, procs, sync, widget>>

\* what the steps of concurrent invocations leave alone
sequential ==
  <<handler, kb, pc, req, loc, calls, resp, served, store0, params, rows, rows0,
    input, output, sync, widget>>

\* invocation p, from the arrival of its request to its first access to the
\* table or, without a history fetch, to the chat completion request
Arrive(p, body) ==
  LET maxHistoryMessages == NumberOr(body.max_history, 4)
  IN
  /\ procs[p].pc = "idle"
  /\ procs' = [procs EXCEPT ![p] =
                 [@ EXCEPT
                    !.sessionId = IF body.session_id = NoSession
                                    THEN randomUUID(p) ELSE body.session_id,
                    !.query = body.query.text,
                    !.maxHistoryMessages = maxHistoryMessages,
                    !.pc = IF handler = "conversational" /\ Positive(maxHistoryMessages)
                             THEN "history" ELSE "chat"]]
  /\ UNCHANGED <<sequential, store, clock>>

\* the history fetch of invocation p is answered
HistoryFetched(p, outcome) ==
  LET historyData == SelectHistory(store, procs[p].sessionId,
                                   procs[p].maxHistoryMessages.h)
  IN
  /\ procs[p].pc = "history"
  /\ procs' = [procs EXCEPT ![p] =
                 [@ EXCEPT
                    !.history = IF outcome = "data"
                                  THEN [i \in 1..Len(historyData) |->
                                          Message(historyData[i].role,
                                                  historyData[i].content, <<>>)]
                                  ELSE <<>>,
                    !.pc = "chat"]]
  /\ UNCHANGED <<sequential, store, clock>>

\* the generation service answers invocation p, which builds the user row
\* with timestamp new Date()
ChatAnswered(p, chat) ==
  /\ procs[p].pc = "chat"
  /\ procs' = [procs EXCEPT ![p] =
                 IF chat.t = "throw"
                   THEN [@ EXCEPT !.pc = "done", !.status = 500]
                   ELSE [@ EXCEPT !.answer = Answer(handler, chat, <<>>),
                                  !.ts = clock,
                                  !.pc = "insertUser"]]
  /\ UNCHANGED <<sequential, store, clock>>

\* UNIQUE (session_id, timestamp)
UniqueViolation(table, row) ==
  \E i \in 1..Len(table) :
    table[i].session_id = row.session_id /\ table[i].timestamp = row.timestamp

\* an insert that overwrites the row of the same session and timestamp
InsertOrReplace(table, row, outcome) ==
  IF outcome # "ok" THEN table
  ELSE IF UniqueViolation(table, row)
    THEN [i \in 1..Len(table) |->
            IF table[i].session_id = row.session_id /\ table[i].timestamp = row.timestamp
              THEN row ELSE table[i]]
    ELSE Append(table, row)

\* chat_messages after an insert answered with outcome
Insert(table, row, outcome) ==
  IF outcome = "ok" /\ ~UniqueViolation(table, row) THEN Append(table, row) ELSE table

\* the user insert of invocation p is answered; on a throw the catch skips
\* the assistant insert
UserInserted(p, outcome) ==
  LET row == Turn(procs[p].sessionId, "user", procs[p].query, procs[p].ts)
  IN
  /\ procs[p].pc = "insertUser"
  /\ store' = Insert(store, row, outcome)
  /\ procs' = [procs EXCEPT ![p] =
                 [@ EXCEPT
                    !.appended = IF store' # store THEN Append(@, row) ELSE @,
                    !.ts = clock,
                    !.pc = IF outcome = "throw" THEN "done" ELSE "insertAssistant",
                    !.status = IF outcome = "throw" THEN 200 ELSE 0]]
  /\ UNCHANGED <<sequential, clock>>

\* the assistant insert of invocation p is answered and the response sent
AssistantInserted(p, outcome) ==
  LET row == Turn(procs[p].sessionId, "assistant", procs[p].answer, procs[p].ts)
  IN
  /\ procs[p].pc = "insertAssistant"
  /\ store' = Insert(store, row, outcome)
  /\ procs' = [procs EXCEPT ![p] =
                 [@ EXCEPT
                    !.appended = IF store' # store THEN Append(@, row) ELSE @,
                    !.pc = "done",
                    !.status = 200]]
  /\ UNCHANGED <<sequential, clock>>

InitConcurrent ==
  /\ handler \in {"index", "conversational"}
  /\ kb = {}
  /\ store \in {<<>>, StoredExchanges}
  /\ pc = "idle"
  /\ req = IdleRequest
  /\ loc = LocInit
  /\ calls = <<>>
  /\ resp = NoResponse
  /\ served = 0
  /\ store0 = store
  /\ params = NoParams
  /\ rows = <<>>
  /\ rows0 = <<>>
  /\ input = <<>>
  /\ output = <<>>
  /\ procs = [p \in Procs |-> ProcInit]
  /\ clock = 5
  /\ sync = SyncInit
  /\ widget = WidgetInit

NextConcurrent ==
  \/ Tick
  \/ \E p \in Procs : \E body \in ConcurrentBodies(p) : Arrive(p, body)
  \/ \E p \in Procs, o \in {"data", "error", "throw"} : HistoryFetched(p, o)
  \/ \E p \in Procs, c \in ConcurrentChatOutcomes : ChatAnswered(p, c)
  \/ \E p \in Procs, o \in {"ok", "error", "throw"} : UserInserted(p, o)
  \/ \E p \in Procs, o \in {"ok", "error", "throw"} : AssistantInserted(p, o)

SpecConcurrent == InitConcurrent /\ [][NextConcurrent]_vars

----------------------------------------------------------------------------
(* Claims *)

Answered == pc = "done" /\ resp.kind = "answer"

\* C1: for a fused result list of length n handed to the handler, the
\* context block has exactly the markers [#1]..[#n] and the response has
\* exactly n citations, indexed 1..n, citation i built from the passage at
\* context position i, whatever the answer text cites.
C1_CitationIndexContract ==
  Answered =>
    LET n == Len(loc.hits)
    IN /\ Len(loc.context) = n
       /\ \A i \in 1..Len(loc.context) :
            /\ loc.context[i].marker = i
            /\ loc.context[i].content = loc.hits[i].content
       /\ Len(resp.citations) = n
       /\ \A i \in 1..Len(resp.citations) :
            /\ resp.citations[i].index = i
            /\ resp.citations[i].snippet = Snippet(loc.hits[i].content)
            /\ resp.citations[i].score = loc.hits[i].score

\* C2: needs_human_help = NOT social(query) AND (nonAnswer(answer) OR
\* candidateCount = 0), for every query, answer text and candidate count.
C2_HandoffFormula ==
  Answered =>
    resp.needs_human_help =
      (~isSocialQuestion(loc.query)
         /\ (isNoAnswer(resp.answer) \/ Len(resp.sources) = 0))

\* C3: a query that matches a social pattern never yields needs_human_help,
\* whatever the answer and the candidate count; a query that matches none,
\* with zero candidates, always yields it.
C3_SocialNeverHandsOff ==
  Answered =>
    /\ isSocialQuestion(req.body.query.text) => ~resp.needs_human_help
    /\ (~isSocialQuestion(req.body.query.text) /\ Len(loc.hits) = 0)
         => resp.needs_human_help

\* C4: the list search_kb_hybrid returns is in descending order of fused
\* score, rows of equal score in ascending order of passage id.
C4_OrderedWithIdTieBreak ==
  pc = "returned" =>
    \A i, j \in 1..Len(rows) :
      i < j => \/ rows[i].score > rows[j].score
               \/ rows[i].score = rows[j].score /\ rows[i].id < rows[j].id

\* C5: when the generation service fails or answers without an answer text,
\* the request ends with an error response: no success response carries an
\* answer text and none is stored as an assistant turn.
C5_GenerationFailureIsAnError ==
  loc.chatRes \in {"throw", "noContent"} =>
    /\ pc = "done" => resp.kind = "error"
    /\ \A i \in (Len(store0) + 1)..Len(store) : store[i].role # "assistant"

CallsOf(svc) == {i \in 1..Len(calls) : calls[i].svc = svc}

\* C6: when the embedding service fails or answers without an embedding, the
\* request ends with an error response, and it has called neither the
\* retrieval backend nor the generation service nor appended a session turn.
C6_EmbeddingFailureStopsRequest ==
  loc.embRes \in {"throw", "noEmbedding"} =>
    /\ pc = "done"
    /\ resp.kind = "error"
    /\ resp.status \in {500, 502}
    /\ Len(calls) = 1 /\ calls[1].svc = "embedding"
    /\ store = store0

C6_Witness ==
  /\ loc.embRes = "noEmbedding"
  /\ pc = "done"
  /\ resp = ErrorResponse(502, "Failed to get embedding")

\* the responses to a missing SUPABASE_URL, service role key or OpenAI key
ConfigErrors ==
  {ErrorResponse(500, "Missing SUPABASE_URL env"),
   ErrorResponse(500, "Missing SERVICE_ROLE_KEY env"),
   ErrorResponse(500, "Missing OPENAI_API_KEY env")}

\* C7: when the retrieval call fails, the request ends with an error
\* response, without a generation call or a session append, and the
\* response differs from every response to a missing configuration.
C7_RetrievalFailureIsDistinct ==
  loc.rpcRes \in {"throw", "error"} =>
    /\ pc = "done"
    /\ resp.kind = "error"
    /\ resp \notin ConfigErrors
    /\ CallsOf("chat") = {} /\ CallsOf("history") = {} /\ CallsOf("insert") = {}
    /\ store = store0

C7_Witness ==
  /\ loc.rpcRes = "error"
  /\ pc = "done"
  /\ resp = ErrorResponse(502, "Hybrid search failed")
  /\ kb # {}

\* the body the handler reads
BodyOf(r) == IF r.parseable THEN r.body ELSE EmptyBody

\* a query that is missing, empty or not a string
QueryMissingEmptyOrNotString(q) ==
  q.t \in {"absent", "num"} \/ (q.t = "str" /\ q.text = <<>>)

\* C8: a request (a POST that is no health probe) whose query is missing,
\* empty or not a string is rejected at once with an error response: no
\* external call is made and no session turn is written.
C8_InvalidQueryRejected ==
  (/\ pc # "idle"
   /\ req.method = "POST"
   /\ ~BodyOf(req).health
   /\ QueryMissingEmptyOrNotString(BodyOf(req).query)) =>
    /\ pc = "done"
    /\ resp = ErrorResponse(400, "Missing 'query' (string)")
    /\ calls = <<>>
    /\ store = store0

C8_Witness ==
  /\ pc = "done"
  /\ req.method = "POST"
  /\ req.parseable
  /\ req.body.query = QNumber
  /\ resp.status = 400
  /\ store = StoredExchanges

\* the turns of session s in the table, oldest first
SessionTurns(table, s) == SelectSeq(table, LAMBDA r : r.session_id = s)

\* the history turns of a message sequence: all but the system instruction
\* and the final user turn
HistoryPart(messages) == SubSeq(messages, 2, Len(messages) - 1)

\* C9: for a session holding n turns, the history in the message sequence is
\* the min(n, 2*historyLimit) most recent turns, oldest first.
C9_MostRecentHistory ==
  loc.historyRes = "data" =>
    LET mine == SessionTurns(store0, loc.sessionId)
        n == Len(mine)
        m == IF n <= loc.maxHistoryMessages.h THEN n ELSE loc.maxHistoryMessages.h
    IN HistoryPart(loc.messages) =
         [i \in 1..m |-> Message(mine[n - m + i].role, mine[n - m + i].content, <<>>)]

HistoryFailed == loc.historyRes \in {"error", "throw"}

NoHistoryMessages ==
  <<Message("system", SystemConversational, <<>>),
    Message("user", loc.query, loc.context)>>

\* C10 as stated: if the history fetch fails, the request still completes
\* with a success AnswerResult (no 5xx), generation having been invoked with
\* a message sequence without history turns.
C10_HistoryFailureAlwaysSucceeds ==
  (HistoryFailed /\ pc = "done") =>
    /\ resp.kind = "answer"
    /\ resp.status = 200

\* C10 as amended: if the history fetch fails, the generation service is
\* still invoked, with a message sequence without history turns, and the
\* request completes with a success AnswerResult unless the generation
\* request itself throws, which gives the 500 "Unhandled error".
C10_HistoryFailureNotFatal ==
  HistoryFailed =>
    /\ \E i \in CallsOf("chat") : calls[i].messages = NoHistoryMessages
    /\ \A i \in CallsOf("chat") : calls[i].messages = NoHistoryMessages
    /\ pc = "done" =>
         \/ resp.kind = "answer" /\ resp.status = 200
         \/ loc.chatRes = "throw" /\ resp = Unhandled

C10_Witness ==
  /\ loc.historyRes = "error"
  /\ SessionTurns(store0, loc.sessionId) # <<>>
  /\ pc = "done"
  /\ resp.kind = "answer"

\* the turns the current request has added to chat_messages
Appended == SubSeq(store, Len(store0) + 1, Len(store))

\* the success response built from what the handler had computed when the
\* generation service had answered, before the first insert
ResponseBeforeAppend ==
  [status |-> 200, kind |-> "answer", answer |-> loc.answer,
   citations |-> loc.citations, sources |-> loc.hits,
   needs_human_help |-> loc.needsHumanHelp, session_id |-> loc.sessionId]

\* C11: a failure of the session-store append (an insert answering an error
\* or throwing) is never propagated: the response of the request is the one
\* it has when the append succeeds, whatever the table then holds.
C11_AppendFailureNotPropagated ==
  (pc = "done" /\ CallsOf("insert") # {}) => resp = ResponseBeforeAppend

C11_Witness ==
  /\ pc = "done"
  /\ Cardinality(CallsOf("insert")) = 1
  /\ Appended = <<>>
  /\ resp.kind = "answer"
  /\ resp.answer = AnsCited

\* C12: the session-store write of a request happens only after the
\* generation call has returned; the assistant turn it appends holds the
\* answer of the response, the user turn the raw query of the request.
C12_WriteAfterGeneration ==
  pc # "idle" =>
  /\ loc.chatRes = "" => (CallsOf("insert") = {} /\ Appended = <<>>)
  /\ \A i \in CallsOf("insert") : \E j \in CallsOf("chat") : j < i
  /\ \A i \in 1..Len(Appended) :
       /\ Appended[i].role = "user" => Appended[i].content = BodyOf(req).query.text
       /\ Appended[i].role = "assistant" =>
            /\ Appended[i].content = loc.answer
            /\ pc = "done" => (resp.kind = "answer" /\ resp.answer = Appended[i].content)

C12_Witness ==
  /\ pc = "done"
  /\ Len(Appended) = 2
  /\ Appended[1].role = "user" /\ Appended[1].content = QHiThere
  /\ Appended[2].role = "assistant" /\ Appended[2].content = resp.answer
  /\ loc.chatRes = "noContent"

\* s is a prefix of t
IsPrefix(s, t) == Len(s) <= Len(t) /\ SubSeq(t, 1, Len(s)) = s

\* the sessions that have a turn in the table
SessionsOf(table) == {table[i].session_id : i \in 1..Len(table)}

\* C13: no step of a request modifies or deletes a stored turn: the stored
\* sequence of every session after the step is the sequence before it with
\* zero or more turns added.
C13_AppendOnly ==
  [][/\ IsPrefix(store, store')
     /\ \A s \in SessionsOf(store) :
          IsPrefix(SessionTurns(store, s), SessionTurns(store', s))]_vars

C13_Witness ==
  /\ pc = "done"
  /\ store0 = StoredExchanges
  /\ Len(Appended) = 2
  /\ Appended[1].session_id = ClientSession(1)

\* C14: the session_id of the response is the one of the request when one
\* was supplied and a newly generated id, of no stored turn, otherwise;
\* every turn the request reads or appends is tagged with that id.
C14_OwnSessionOnly ==
  LET supplied == BodyOf(req).session_id
      mine == SessionTurns(store0, loc.sessionId)
  IN
  (pc # "idle" /\ req.method = "POST" /\ ~BodyOf(req).health) =>
    /\ supplied # NoSession => loc.sessionId = supplied
    /\ supplied = NoSession =>
         /\ loc.sessionId.src = "uuid"
         /\ loc.sessionId \notin SessionsOf(store0)
    /\ (pc = "done" /\ resp.kind = "answer") => resp.session_id = loc.sessionId
    /\ \A i \in CallsOf("history") \cup CallsOf("insert") :
         calls[i].session = loc.sessionId
    /\ \A i \in 1..Len(Appended) : Appended[i].session_id = loc.sessionId
    /\ /\ Len(loc.conversationHistory) <= Len(mine)
       /\ \A i \in 1..Len(loc.conversationHistory) :
            \E j \in 1..Len(mine) :
              loc.conversationHistory[i] = Message(mine[j].role, mine[j].content, <<>>)

C14_Witness ==
  /\ pc = "done"
  /\ resp.kind = "answer"
  /\ BodyOf(req).session_id = NoSession
  /\ store0 = StoredExchanges
  /\ loc.historyRes = "data"
  /\ Len(Appended) = 2

\* the queries of the model that match a social pattern
SocialQueries == {q \in Queries \cup {QControl4Login} : isSocialQuestion(q)}

\* the context of the final user turn of a message sequence
ContextSent(messages) == messages[Len(messages)].context

C16_TopKClamped ==
  /\ \A i \in CallsOf("search_kb_hybrid") :
       /\ ~calls[i].k.nan
       /\ IsInteger(calls[i].k)
       /\ 1 <= ToInteger(calls[i].k) /\ ToInteger(calls[i].k) <= 25
       /\ BodyOf(req).top_k = Absent => ToInteger(calls[i].k) = 10
       /\ Len(loc.context) <= ToInteger(calls[i].k)
       /\ Len(loc.citations) <= ToInteger(calls[i].k)

\* C17: query normalization is idempotent: normalizing a normalized text
\* gives that text, for every input text.
C17_NormalizeIdempotent ==
  pc = "normalized" => normalizeLocal(output) = output

\* the normalized text of the end-to-end scenario
Control4CannotLogin ==
  <<"c","o","n","t","r","o","l","4"," ","a","p","p"," ","c","a","n","n","o","t"," ",
    "l","o","g","i","n">>

\* C20: the query "control 4 app won't login" is normalized to "control4 app
\* cannot login" before it is embedded and sent to retrieval.
C20_SynonymRewrite ==
  BodyOf(req).query.text = QControl4Login =>
    /\ \A i \in CallsOf("embedding") : calls[i].input = Control4CannotLogin
    /\ \A i \in CallsOf("search_kb_hybrid") : calls[i].q_text = Control4CannotLogin

\* the positions of the passage id in a result (at most one)
PositionsOf(id, result) == {i \in 1..Len(result) : result[i].id = id}

\* row a has a strictly higher semantic score than row b, and lexical and
\* trigram scores that are not lower
Dominates(a, b) ==
  /\ a.sem_score > b.sem_score
  /\ a.lex_score >= b.lex_score
  /\ a.tri_score >= b.tri_score

\* raising w_semantic has not lowered score(A) - score(B) for any returned
\* A that dominates a returned B
GapNotLowered ==
  \A i, j \in 1..Len(rows) :
    Dominates(rows[i], rows[j]) =>
      \A i0 \in PositionsOf(rows[i].id, rows0), j0 \in PositionsOf(rows[j].id, rows0) :
        rows[i].score - rows[j].score >= rows0[i0].score - rows0[j0].score

\* in the result, no row is below a row it dominates
DominantAbove(result) ==
  \A i, j \in 1..Len(result) : Dominates(result[i], result[j]) => i < j

\* C18 as stated: raising w_semantic with the other weights fixed never
\* lowers score(A) - score(B) for A above B in semantic score and not below
\* it in the other two, and A is never ranked below B.
C18_MonotoneAndNeverBelow ==
  pc = "reweighted" => (GapNotLowered /\ DominantAbove(rows0) /\ DominantAbove(rows))

\* C18 as amended: raising w_semantic never lowers score(A) - score(B), and
\* A is ranked above B in every result computed with w_semantic > 0 and
\* w_lexical, w_trigram >= 0.
C18_WeightMonotone ==
  /\ pc = "reweighted" => GapNotLowered
  /\ (pc \in {"returned", "reweighted"}
       /\ params.w_semantic > 0 /\ params.w_lexical >= 0 /\ params.w_trigram >= 0)
      => DominantAbove(rows)

C18_Witness ==
  /\ pc = "reweighted"
  /\ params.w_lexical > 0
  /\ \E i, j \in 1..Len(rows) :
       /\ Dominates(rows[i], rows[j])
       /\ i < j
       /\ \E i0 \in PositionsOf(rows[i].id, rows0), j0 \in PositionsOf(rows[j].id, rows0) :
            /\ i0 > j0
            /\ rows[i].score - rows[j].score > rows0[i0].score - rows0[j0].score

\* row is in the table
Stored(row, table) == \E i \in 1..Len(table) : table[i] = row

\* C19: under any interleaving of concurrent requests, every turn an
\* invocation has appended is stored with its own session id, role and
\* content, every stored turn is one the table held at the start or one an
\* invocation of that session appended, and the history an invocation
\* fetched holds turns of its own session only; no step alters or removes a
\* stored turn (same-session invocations may interleave their turns).
TurnsIsolated ==
  /\ \A p \in Procs :
       /\ \A i \in 1..Len(procs[p].appended) :
            LET row == procs[p].appended[i]
            IN /\ Stored(row, store)
               /\ row.session_id = procs[p].sessionId
               /\ \/ row.role = "user" /\ row.content = procs[p].query
                  \/ row.role = "assistant" /\ row.content = procs[p].answer
       /\ \A i \in 1..Len(procs[p].history) :
            \E j \in 1..Len(store) :
              /\ store[j].session_id = procs[p].sessionId
              /\ procs[p].history[i] = Message(store[j].role, store[j].content, <<>>)
  /\ IsPrefix(store0, store)
  /\ \A j \in (Len(store0) + 1)..Len(store) :
       \E p \in Procs :
         /\ procs[p].sessionId = store[j].session_id
         /\ Stored(store[j], procs[p].appended)

C19_ConcurrentRequestsIsolated ==
  [][TurnsIsolated /\ TurnsIsolated' /\ IsPrefix(store, store')]_vars

\* two invocations of one session have interleaved their turns (the user
\* turn of one between the two turns of the other), the turns of another
\* session being stored as they were
C19_Witness ==
  /\ \A p \in Procs : procs[p].sessionId = ClientSession(2)
  /\ store0 = StoredExchanges
  /\ Len(store) = Len(store0) + 3
  /\ store[Len(store0) + 1].role = "user"
  /\ store[Len(store0) + 2].role = "user"
  /\ store[Len(store0) + 3].role = "assistant"
  /\ \E p, q \in Procs :
       /\ p # q
       /\ Stored(store[Len(store0) + 1], procs[p].appended)
       /\ Stored(store[Len(store0) + 2], procs[q].appended)
       /\ Stored(store[Len(store0) + 3], procs[p].appended)


----------------------------------------------------------------------------
(* Specifications of kb-sync and of the widget *)

\* ask-bot serving no request
AskBotIdle ==
  /\ handler = "index"
  /\ kb = {}
  /\ store = <<>>
  /\ pc = "idle"
  /\ req = IdleRequest
  /\ loc = LocInit
  /\ calls = <<>>
  /\ resp = NoResponse
  /\ served = 0
  /\ store0 = <<>>
  /\ params = NoParams
  /\ rows = <<>>
  /\ rows0 = <<>>
  /\ input = <<>>
  /\ output = <<>>
  /\ procs = <<>>
  /\ clock = 0

InitSync ==
  /\ AskBotIdle
  /\ sync = SyncInit
  /\ widget = WidgetInit

NextSync ==
  \/ \E a \in ArticleIds, empty \in BOOLEAN : EditArticle(a, empty)
  \/ \E full \in BOOLEAN, outcome \in {"ok", "throw"} : StartSync(full, outcome)
  \/ \E outcome \in {"ok", "insertError", "throw"} : SyncArticle(outcome)
  \/ \E outcome \in {"ok", "error"} : Checkpoint(outcome)

SpecSync == InitSync /\ [][NextSync]_vars

InitWidget ==
  /\ AskBotIdle
  /\ sync = SyncInit
  /\ widget = WidgetInit

NextWidget ==
  \/ ToggleOpen
  \/ \E text \in WidgetInputs : TypeInput(text)
  \/ PressEnter
  \/ ClickSend
  \/ \E i \in 1..MaxSends, outcome \in {"answer", "handoff", "throw"} : Responded(i, outcome)

SpecWidget == InitWidget /\ [][NextWidget]_vars

----------------------------------------------------------------------------
(* Claims on the candidate sets, the prompt, the two normalizers and the    *)
(* order of the calls                                                       *)

Returned == pc \in {"returned", "reweighted"}

\* the passages some choice of the three candidate sets holds
Surfaced(passages, k) ==
  UNION {c[1] \cup c[2] \cup c[3] : c \in Candidates(passages, k)}

PassageOf(row) == CHOOSE p \in kb : p.id = row.id

\* C21: the fused ranking covers exactly the union of the three candidate
\* sets: every returned passage is in the semantic, the lexical or the
\* trigram candidate set, and a signal that did not match a returned passage
\* counts as 0 for it
C21_RankedOverCandidateUnion ==
  Returned =>
    \A i \in 1..Len(rows) :
      /\ PassageOf(rows[i]) \in Surfaced(kb, params.k)
      /\ ~PassageOf(rows[i]).lexHit => rows[i].lex_score = 0
      /\ ~PassageOf(rows[i]).triHit => rows[i].tri_score = 0

\* what a signal contributes to a row: the passage's score for it, or 0 when
\* the signal did not surface the passage
Contribution(hit, value) == IF hit THEN {value, 0} ELSE {0}

\* C22: every returned passage has score = w_semantic * sem_score +
\* w_lexical * lex_score + w_trigram * tri_score with the weights as
\* supplied, a signal that did not surface the passage counts as the number
\* 0, and each of the three candidate sets holds at most k * 10 passages
C22_ScoreIsWeightedSum ==
  Returned =>
    /\ \A i \in 1..Len(rows) :
         LET r == rows[i]
             p == PassageOf(r)
         IN /\ r.score = params.w_semantic * r.sem_score
                         + params.w_lexical * r.lex_score
                         + params.w_trigram * r.tri_score
            /\ r.sem_score \in Contribution(TRUE, p.sem)
            /\ r.lex_score \in Contribution(p.lexHit, p.lex)
            /\ r.tri_score \in Contribution(p.triHit, p.tri)
    /\ ~params.k.null =>
         \A c \in Candidates(kb, params.k) :
           \A signal \in 1..3 : Cardinality(c[signal]) <= params.k.n * Oversample

\* a call with weights that do not sum to 1 on a knowledge base larger than
\* a candidate set, returning a passage no trigram search matched
C22_Witness ==
  /\ Returned
  /\ params.k = SqlInt(1)
  /\ Cardinality(kb) > Oversample
  /\ params.w_semantic + params.w_lexical + params.w_trigram # 1000
  /\ Len(rows) = 1
  /\ rows[1].score > 0
  /\ ~PassageOf(rows[1]).triHit /\ rows[1].tri_score = 0

IsSuffix(s, t) == Len(s) <= Len(t) /\ SubSeq(t, Len(t) - Len(s) + 1, Len(t)) = s

\* C23: the message sequence of a chat completion request is one system
\* instruction, then the fetched history turns as stored and in their order
\* (at most 2 * max_history of them), then one user turn with the raw query
\* and the context block; no other message carries the context block
C23_MessageSequence ==
  \A i \in 1..Len(calls) :
    calls[i].svc = "chat" =>
      LET ms == calls[i].messages
          n == Len(ms)
          history == HistoryPart(ms)
          mine == SessionTurns(store0, loc.sessionId)
      IN /\ n >= 2
         /\ ms[1].role = "system"
         /\ \A j \in 2..n : ms[j].role # "system"
         /\ ms[n].role = "user"
         /\ IsSuffix(loc.query, ms[n].text)
         /\ ms[n].context = loc.context
         /\ \A j \in 1..(n - 1) : ms[j].context = <<>>
         /\ history = loc.conversationHistory
         /\ Len(history) <= Len(mine)
         /\ \A j \in 1..Len(history) :
              history[j] = Message(mine[j].role, mine[j].content, <<>>)
         /\ Len(history) > 0 =>
              /\ ~loc.maxHistoryMessages.nan
              /\ Len(history) <= loc.maxHistoryMessages.h

\* a chat completion request with two history turns and a context block
C23_Witness ==
  \E i \in 1..Len(calls) :
    /\ calls[i].svc = "chat"
    /\ Len(calls[i].messages) = 4
    /\ loc.context # <<>>
    /\ ContextSent(calls[i].messages) = loc.context
    /\ Len(SessionTurns(store0, loc.sessionId)) > 2

\* C24: normalizeLocal and normalize_text are the same function: on every
\* text, under either setting of the database, normalize_text returns the
\* canonical text normalizeLocal returns
C24_SameNormalizer ==
  (pc = "normalized" /\ ~InSeq(TradeMark, input)) =>
    \A setting \in StringSettings : normalize_text(setting, input) = output


\* C25: the turns of a request are appended as a pair: when the request is
\* over either its user turn and its assistant turn are both stored, the user
\* turn first, or neither is
C25_TurnsAppendedAsPair ==
  pc = "done" =>
    \/ Appended = <<>>
    \/ /\ Len(Appended) = 2
       /\ Appended[1].role = "user" /\ Appended[1].content = loc.query
       /\ Appended[2].role = "assistant" /\ Appended[2].content = loc.answer

\* the place of a call in the pipeline
ServiceRank(svc) ==
  CASE svc = "embedding" -> 1
    [] svc = "search_kb_hybrid" -> 2
    [] svc = "history" -> 3
    [] svc = "chat" -> 4
    [] svc = "insert" -> 5

\* C26: the external calls of one execution occur in the order embedding,
\* retrieval, history fetch, generation, session append; retrieval is called
\* only after the embedding succeeded, generation only after retrieval and
\* the history fetch have completed, and a request that ends in an error
\* response has appended no session turn
C26_CallOrder ==
  /\ \A i, j \in 1..Len(calls) :
       i < j => /\ ServiceRank(calls[i].svc) <= ServiceRank(calls[j].svc)
                /\ calls[j].svc # "insert" =>
                     ServiceRank(calls[i].svc) < ServiceRank(calls[j].svc)
  /\ CallsOf("search_kb_hybrid") # {} => loc.embRes = "embedding"
  /\ CallsOf("chat") # {} =>
       /\ loc.rpcRes = "rows"
       /\ CallsOf("history") # {} => loc.historyRes \in {"data", "error", "throw"}
  /\ (pc = "done" /\ resp.kind = "error") => Appended = <<>>

\* a request of the conversational handler that made all five kinds of call
C26_Witness ==
  /\ pc = "done"
  /\ handler = "conversational"
  /\ \A svc \in {"embedding", "search_kb_hybrid", "history", "chat", "insert"} :
       CallsOf(svc) # {}
  /\ Len(Appended) = 2

\* C27: no call is retried: in every execution the embedding service, the
\* retrieval backend, the history fetch and the generation service are each
\* called at most once, whether the call succeeds or fails
C27_NoRetries ==
  \A svc \in {"embedding", "search_kb_hybrid", "history", "chat"} :
    Cardinality(CallsOf(svc)) <= 1

\* a request whose history fetch failed and whose generation request threw,
\* over with one call of each made
C27_Witness ==
  /\ pc = "done"
  /\ resp = Unhandled
  /\ loc.chatRes = "throw"
  /\ loc.historyRes = "error"
  /\ Cardinality(CallsOf("chat")) = 1
  /\ Cardinality(CallsOf("history")) = 1

Thrown ==
  \/ loc.embRes = "throw"
  \/ loc.rpcRes = "throw"
  \/ loc.chatRes = "throw"

\* what the response of a finished request has to be, by method and body
ResponseAsRequired ==
  /\ resp # NoResponse
  /\ req.method = "OPTIONS" => resp.status = 204 /\ calls = <<>>
  /\ req.method \notin {"OPTIONS", "POST"} => resp.status = 405 /\ calls = <<>>
  /\ (req.method = "POST" /\ req.parseable /\ req.body.health) =>
       resp.status = 200 /\ resp.kind = "health" /\ calls = <<>>
  /\ Thrown => resp = Unhandled

\* C28: every request gets exactly one response, whatever the body and the
\* outcome of each call (an error result or an exception): a request being
\* handled is eventually over, it has no response before it is over and one
\* response, never replaced, once it is; OPTIONS gives 204, another method
\* than POST 405, a health probe 200 without any call, and an exception of
\* a call the 500 "Unhandled error" response
C28_ExactlyOneResponse ==
  /\ [](pc = "done" => ResponseAsRequired)
  /\ [](pc # "done" => resp = NoResponse)
  /\ [][pc = "done" => (resp' = resp \/ pc' = "idle")]_vars
  /\ (pc # "idle") ~> (pc = "done")

\* a request whose retrieval call threw, answered 500 "Unhandled error"
C28_Witness ==
  /\ pc = "done"
  /\ loc.rpcRes = "throw"
  /\ resp = Unhandled
  /\ Len(calls) = 2

\* an article whose chunks in kb_chunks are older than the article
Stale(a) ==
  /\ ~sync.articles[a].empty
  /\ sync.kb_chunks[a] < sync.articles[a].updated_at

\* C29: incremental kb-sync never permanently misses an update: between
\* runs, every article modified after its chunks were last indexed is one
\* the next incremental run selects
C29_NoMissedUpdate ==
  sync.pc = "idle" =>
    \A a \in ArticleIds :
      Stale(a) => a \in {ArticlesSince(sync.articles, sync.last_synced_at)[i] :
                           i \in 1..Len(ArticlesSince(sync.articles, sync.last_synced_at))}

\* C30: the widget never has two ask requests in flight at once, and loading
\* is true from a send until its response or failure is handled
C30_OneRequestInFlight ==
  /\ Len(widget.inFlight) <= 1
  /\ widget.inFlight # <<>> => widget.loading
====
